---- MODULE Spec2Model ----
(***************************************************************************)
(* A model of ec2-port-checker.py: the AWS Config rule that evaluates the  *)
(* security groups of EC2 instances against a set of forbidden ports and   *)
(* reports one compliance record per instance.                             *)
(*                                                                         *)
(* Python strings are TLA+ strings (TLC evaluates Len, \o and SubSeq on    *)
(* them); Python lists are sequences; an exception is a value              *)
(* [exc |-> <name>] returned in place of the result and propagated by      *)
(* every caller, as the source has no try/except.                          *)
(***************************************************************************)
EXTENDS Integers, Sequences, FiniteSets, TLC

VARIABLES
    event,               \* the invocation payload (lambda_handler's event)
    securityGroups,      \* account: instance id -> its security_groups list of dictionaries
    ipPermissions,       \* account: group id -> ip_permissions attribute
    pc,                  \* position of the invocation
    pending,             \* instances of the describe_instances answer not yet visited
    instancesToEvaluate, \* scope: instance id -> list of its group ids
    secGroupsToCheck,    \* scope: the groups to check
    resolved,            \* the scope has been computed
    unchecked,           \* groups getViolationGroups has not visited yet
    violationGroups,     \* getViolationGroups's violations list
    outputEvaluation,    \* lambda_handler's outputEvaluation list
    putEvaluations,      \* the put_evaluations calls made, in order
    failure,             \* the exception that ended the invocation, or "none"
    lookups,             \* the directory lookups that completed
    arg,                 \* argument of the function under test (function specifications)
    result               \* its result

vars == <<event, securityGroups, ipPermissions, pc, pending, instancesToEvaluate,
          secGroupsToCheck, resolved, unchecked, violationGroups, outputEvaluation,
          putEvaluations, failure, lookups, arg, result>>

(***************************************************************************)
(* Bounds.                                                                 *)
(***************************************************************************)
MaxSpecLen == 3      \* longest port specification string drawn
MaxPort == 2         \* ports of ingress rules are drawn from 0..MaxPort
MaxRanges == 2       \* most IpRanges entries in one permission
MaxRules == 1        \* most permissions in one ip_permissions list (function specification)
NumInstances == 2    \* instances in the account
NumGroups == 2       \* security groups in the account

(***************************************************************************)
(* Strings.                                                                *)
(***************************************************************************)
DigitChars == <<"0", "1", "2", "3", "4", "5", "6", "7", "8", "9">>

Char(s, i) == SubSeq(s, i, i)

IsDigit(c) == \E d \in 1..10 : DigitChars[d] = c

DigitValue(c) == (CHOOSE d \in 1..10 : DigitChars[d] = c) - 1

\* Python's `sub in s` on strings: sub occurs somewhere in s.
Contains(sub, s) ==
    \E i \in 1..(Len(s) - Len(sub) + 1) : SubSeq(s, i, i + Len(sub) - 1) = sub

\* Python's s.split("-"): the pieces between the separators, empty pieces kept.
RECURSIVE Split(_, _)
Split(s, piece) ==
    IF s = "" THEN <<piece>>
    ELSE IF Char(s, 1) = "-"
         THEN <<piece>> \o Split(SubSeq(s, 2, Len(s)), "")
         ELSE Split(SubSeq(s, 2, Len(s)), piece \o Char(s, 1))

RECURSIVE DecimalValue(_, _)
DecimalValue(s, acc) ==
    IF s = "" THEN acc
    ELSE DecimalValue(SubSeq(s, 2, Len(s)), 10 * acc + DigitValue(Char(s, 1)))

Ok(v) == [exc |-> "none", value |-> v]

Raise(e) == [exc |-> e]

\* Python's int(s) on a string of the alphabet used here: a non-empty string
\* of decimal digits is its value, anything else raises ValueError.
ParseInt(s) ==
    IF s # "" /\ \A i \in 1..Len(s) : IsDigit(Char(s, i))
    THEN Ok(DecimalValue(s, 0))
    ELSE Raise("ValueError")

\* Python 2's range(a, b): the list a, a+1, ..., b-1, empty when b <= a.
Range(a, b) == IF b > a THEN [i \in 1..(b - a) |-> a + i - 1] ELSE <<>>

Elements(list) == {list[i] : i \in 1..Len(list)}

(***************************************************************************)
(* Port-range utilities.                                                   *)
(***************************************************************************)
expand_range(ports) ==
    IF Contains("-", ports)
    THEN LET lo == ParseInt(Split(ports, "")[1])
             hi == ParseInt(Split(ports, "")[2])
         IN  IF lo.exc # "none" THEN lo
             ELSE IF hi.exc # "none" THEN hi
             ELSE Ok(Range(lo.value, hi.value + 1))
    ELSE LET n == ParseInt(ports)
         IN  IF n.exc # "none" THEN n ELSE Ok(<<n.value>>)

\* The inner loop of find_exposed_ports over one permission's IpRanges.
RECURSIVE ExposedByRanges(_, _)
ExposedByRanges(permission, ranges) ==
    IF ranges = <<>> THEN <<>>
    ELSE (IF Contains("0.0.0.0/0", Head(ranges).CidrIp)
          THEN Range(permission.FromPort, permission.ToPort + 1)
          ELSE <<>>) \o ExposedByRanges(permission, Tail(ranges))

RECURSIVE ExposedByPermissions(_)
ExposedByPermissions(permissions) ==
    IF permissions = <<>> THEN <<>>
    ELSE ExposedByRanges(Head(permissions), Head(permissions).IpRanges)
             \o ExposedByPermissions(Tail(permissions))

\* ip_permissions is [isNone |-> TRUE] for None, else [isNone |-> FALSE, list |-> ...];
\* `ip_permissions or []` is the empty list for None.
find_exposed_ports(ip_permissions) ==
    ExposedByPermissions(IF ip_permissions.isNone THEN <<>> ELSE ip_permissions.list)

\* find_violation over the values of forbidden_ports in the dictionary's
\* iteration order: TRUE at the first forbidden port found exposed, the
\* exception of the first specification that does not parse before that.
\* Variant: the loop returns after the first forbidden specification.
find_violation_first_only(exposed_ports, forbidden_ports) ==
    IF forbidden_ports = <<>> THEN Ok(FALSE)
    ELSE LET ports == expand_range(Head(forbidden_ports))
         IN  IF ports.exc # "none" THEN ports
             ELSE Ok(\E i \in 1..Len(ports.value) :
                         ports.value[i] \in Elements(exposed_ports))

RECURSIVE find_violation(_, _)
find_violation(exposed_ports, forbidden_ports) ==
    IF forbidden_ports = <<>> THEN Ok(FALSE)
    ELSE LET ports == expand_range(Head(forbidden_ports))
         IN  IF ports.exc # "none" THEN ports
             ELSE IF \E i \in 1..Len(ports.value) : ports.value[i] \in Elements(exposed_ports)
                  THEN Ok(TRUE)
                  ELSE find_violation(exposed_ports, Tail(forbidden_ports))

(***************************************************************************)
(* The account and the invocation payload.                                 *)
(***************************************************************************)
APPLICABLE_RESOURCES == {"AWS::EC2::SecurityGroup", "AWS::EC2::Instance"}

ResourceTypes == APPLICABLE_RESOURCES \cup {"AWS::EC2::Vpc"}

InstanceIds == {"i-" \o DigitChars[k + 1] : k \in 1..NumInstances}

GroupIds == {"sg-" \o DigitChars[k + 1] : k \in 1..NumGroups}

UNRESTRICTED == "0.0.0.0/0"

CidrMenu == {UNRESTRICTED, "10.0.0.0/8", "10.0.0.0/0"}

Permission(from, to, cidrs) ==
    [FromPort |-> from, ToPort |-> to,
     IpRanges |-> [k \in 1..Len(cidrs) |-> [CidrIp |-> cidrs[k]]]]

NoneValue == [isNone |-> TRUE]

Some(list) == [isNone |-> FALSE, list |-> list]

\* A list holding the elements of a set once each, in an order the model
\* does not fix (the order a service answer or a hash table happens to give).
RECURSIVE ListOf(_)
ListOf(set) ==
    IF set = {} THEN <<>>
    ELSE LET x == CHOOSE y \in set : TRUE IN <<x>> \o ListOf(set \ {x})

\* The security_groups attribute of an instance: a list of dictionaries.
GroupDicts(groupSet) ==
    LET ids == ListOf(groupSet) IN [k \in 1..Len(ids) |-> [GroupId |-> ids[k]]]

\* ip_permissions values of the account's groups: one port open to everyone,
\* or two ports open to a private network only.
PermissionMenu ==
    {Some(<<Permission(1, 1, <<UNRESTRICTED>>)>>),
     Some(<<Permission(1, 2, <<"10.0.0.0/8">>)>>)}

\* ruleParameters: the values of the dictionary in its iteration order.
ParameterMenu ==
    {<<>>, <<"1">>, <<"2", "0-1">>, <<"2-1">>, <<"1", "x">>, <<"x", "1">>}

CaptureTime == "2016-06-13T00:00:00.000Z"

Events ==
    {[resourceType |-> t, resourceId |-> id, ruleParameters |-> p,
      configurationItemCaptureTime |-> CaptureTime] :
        t \in ResourceTypes, id \in InstanceIds \cup GroupIds \cup {"vpc-1"},
        p \in ParameterMenu}

WellTyped(e) ==
    \/ e.resourceType = "AWS::EC2::SecurityGroup" /\ e.resourceId \in GroupIds
    \/ e.resourceType = "AWS::EC2::Instance" /\ e.resourceId \in InstanceIds
    \/ e.resourceType = "AWS::EC2::Vpc" /\ e.resourceId = "vpc-1"

Idle ==
    /\ pc = "start"
    /\ pending = {}
    /\ instancesToEvaluate = <<>>
    /\ secGroupsToCheck = {}
    /\ resolved = FALSE
    /\ unchecked = {}
    /\ violationGroups = <<>>
    /\ outputEvaluation = <<>>
    /\ putEvaluations = <<>>
    /\ failure = "none"
    /\ lookups = {}

Init ==
    /\ event \in {e \in Events : WellTyped(e)}
    /\ securityGroups \in [InstanceIds -> {GroupDicts(s) : s \in SUBSET GroupIds}]
    /\ ipPermissions \in [GroupIds -> PermissionMenu]
    /\ Idle
    /\ arg = ""
    /\ result = Raise("unused")

(***************************************************************************)
(* Directory lookups.                                                      *)
(***************************************************************************)
\* Variant: only the first group of the instance is taken.
GroupIdList_first_only(groups) ==
    IF groups = <<>> THEN <<>> ELSE <<groups[1].GroupId>>

\* The group ids appended by the inner loop of
\* determineEvaluationScopeFromTriggerSecGroup.
GroupIdList(groups) == [k \in 1..Len(groups) |-> groups[k].GroupId]

\* describe_instances with the instance.group-id filter: the instances one
\* of whose groups is secGroupId.
instancesForSecurityGroupId(secGroupId) ==
    {i \in InstanceIds :
        \E k \in 1..Len(securityGroups[i]) : securityGroups[i][k].GroupId = secGroupId}

secGroupsForInstanceId(instanceId) == securityGroups[instanceId]

(***************************************************************************)
(* evaluate_compliance and the records of lambda_handler.                  *)
(***************************************************************************)
\* Variant: every type that is not an instance takes the security-group branch.
Branch_fallthrough(resourceType) ==
    IF resourceType = "AWS::EC2::Instance" THEN "instance" ELSE "secgroup"

Branch(resourceType) ==
    IF resourceType = "AWS::EC2::SecurityGroup" THEN "secgroup"
    ELSE IF resourceType = "AWS::EC2::Instance" THEN "instance"
    ELSE "none"

\* Variant: every violating group is reported on every instance.
ViolationInstances_unfiltered(scope, violations) ==
    [i \in DOMAIN scope |-> violations]

\* The loop at the end of evaluate_compliance: per instance, the violating
\* groups that are in its list, in the order of violationGroups.
ViolationInstances(scope, violations) ==
    [i \in DOMAIN scope |->
        SelectSeq(violations, LAMBDA g : g \in Elements(scope[i]))]

RECURSIVE Join(_)
Join(list) ==
    IF list = <<>> THEN ""
    ELSE IF Len(list) = 1 THEN list[1]
    ELSE list[1] \o "," \o Join(Tail(list))

InstanceRecord(instance, groups) ==
    IF Len(groups) # 0
    THEN [ComplianceResourceType |-> "AWS::EC2::Instance",
          ComplianceResourceId |-> instance,
          ComplianceType |-> "NON_COMPLIANT",
          Annotation |-> "Instance has non compliant groups " \o Join(groups),
          OrderingTimestamp |-> event.configurationItemCaptureTime]
    ELSE [ComplianceResourceType |-> "AWS::EC2::Instance",
          ComplianceResourceId |-> instance,
          ComplianceType |-> "COMPLIANT",
          Annotation |-> "This resource is compliant with the rule.",
          OrderingTimestamp |-> event.configurationItemCaptureTime]

NotApplicableRecord ==
    [compliance_type |-> "NOT_APPLICABLE",
     annotation |-> "The rule doesn't apply to resources of type "
                        \o event.resourceType \o "."]

\* lambda_handler's `if evaluations:` on the dictionary evaluate_compliance
\* returned: an empty dictionary is false, as is the False of the else branch.
OutputFor(evaluations) ==
    IF DOMAIN evaluations # {}
    THEN LET order == ListOf(DOMAIN evaluations)
         IN  [k \in 1..Len(order) |-> InstanceRecord(order[k], evaluations[order[k]])]
    ELSE <<NotApplicableRecord>>

\* What follows the computation of the scope: getViolationGroups starts, or,
\* with nothing to check, evaluate_compliance returns at once.
AfterScope(scope, groups) ==
    /\ resolved' = TRUE
    /\ instancesToEvaluate' = scope
    /\ secGroupsToCheck' = groups
    /\ unchecked' = groups
    /\ violationGroups' = <<>>
    /\ IF groups = {}
       THEN /\ pc' = "submit"
            /\ outputEvaluation' = OutputFor(ViolationInstances(scope, <<>>))
       ELSE /\ pc' = "check"
            /\ outputEvaluation' = <<>>

Abort(e) ==
    /\ pc' = "failed"
    /\ failure' = e

(***************************************************************************)
(* The steps of one invocation.                                            *)
(***************************************************************************)
\* lambda_handler up to the first lookup of evaluate_compliance, or to the
\* NOT_APPLICABLE record when the resource type has no branch.
Start ==
    /\ pc = "start"
    /\ UNCHANGED <<event, securityGroups, ipPermissions, putEvaluations, arg, result>>
    /\ CASE Branch(event.resourceType) = "secgroup" ->
              LET found == instancesForSecurityGroupId(event.resourceId)
              IN  /\ lookups' = lookups \cup {<<"describe_instances", event.resourceId>>}
                  /\ pending' = found
                  /\ failure' = failure
                  /\ IF found = {}
                     THEN AfterScope(<<>>, {})
                     ELSE /\ pc' = "resolve"
                          /\ UNCHANGED <<instancesToEvaluate, secGroupsToCheck, resolved,
                                         unchecked, violationGroups, outputEvaluation>>
         [] Branch(event.resourceType) = "instance" ->
              LET groups == secGroupsForInstanceId(event.resourceId)
              IN  /\ lookups' = lookups \cup {<<"security_groups", event.resourceId>>}
                  /\ pending' = pending
                  /\ IF groups # <<>>
                     THEN \* set(groups): the elements are dictionaries, which do not hash
                          /\ Abort("TypeError")
                          /\ UNCHANGED <<instancesToEvaluate, secGroupsToCheck, resolved,
                                         unchecked, violationGroups, outputEvaluation>>
                     ELSE /\ failure' = failure
                          /\ AfterScope((event.resourceId :> <<>>), {})
         [] OTHER ->
              /\ pc' = "submit"
              /\ outputEvaluation' = <<NotApplicableRecord>>
              /\ UNCHANGED <<pending, instancesToEvaluate, secGroupsToCheck, resolved,
                             unchecked, violationGroups, failure, lookups>>

\* One turn of the loop of determineEvaluationScopeFromTriggerSecGroup.
ResolveInstance ==
    /\ pc = "resolve"
    /\ \E i \in pending :
          LET ids == GroupIdList(secGroupsForInstanceId(i))
              scope == instancesToEvaluate @@ (i :> ids)
              groups == secGroupsToCheck \cup Elements(ids)
          IN  /\ lookups' = lookups \cup {<<"security_groups", i>>}
              /\ pending' = pending \ {i}
              /\ IF pending \ {i} = {}
                 THEN AfterScope(scope, groups)
                 ELSE /\ instancesToEvaluate' = scope
                      /\ secGroupsToCheck' = groups
                      /\ UNCHANGED <<pc, resolved, unchecked, violationGroups,
                                     outputEvaluation>>
    /\ UNCHANGED <<event, securityGroups, ipPermissions, putEvaluations, failure,
                   arg, result>>

\* One turn of the loop of getViolationGroups; after the last one the rest of
\* evaluate_compliance and the records of lambda_handler.
CheckSecGroup ==
    /\ pc = "check"
    /\ \E g \in unchecked :
          LET exposed_ports == find_exposed_ports(ipPermissions[g])
              found == find_violation(exposed_ports, event.ruleParameters)
              violations == IF found.exc = "none" /\ found.value
                            THEN Append(violationGroups, g) ELSE violationGroups
          IN  /\ lookups' = lookups \cup {<<"ip_permissions", g>>}
              /\ IF found.exc # "none"
                 THEN /\ Abort(found.exc)
                      /\ UNCHANGED <<unchecked, violationGroups, outputEvaluation>>
                 ELSE /\ unchecked' = unchecked \ {g}
                      /\ violationGroups' = violations
                      /\ failure' = failure
                      /\ IF unchecked \ {g} = {}
                         THEN /\ pc' = "submit"
                              /\ outputEvaluation' =
                                    OutputFor(ViolationInstances(instancesToEvaluate, violations))
                         ELSE UNCHANGED <<pc, outputEvaluation>>
    /\ UNCHANGED <<event, securityGroups, ipPermissions, pending, instancesToEvaluate,
                   secGroupsToCheck, resolved, putEvaluations, arg, result>>

\* config.put_evaluations(Evaluations=outputEvaluation, ...).
PutEvaluations ==
    /\ pc = "submit"
    /\ putEvaluations' = Append(putEvaluations, outputEvaluation)
    /\ pc' = "done"
    /\ UNCHANGED <<event, securityGroups, ipPermissions, pending, instancesToEvaluate,
                   secGroupsToCheck, resolved, unchecked, violationGroups,
                   outputEvaluation, failure, lookups, arg, result>>

\* Variant: the failure is caught and the records built so far are submitted.
LookupFails_submitting ==
    /\ \/ pc = "start" /\ Branch(event.resourceType) # "none"
       \/ pc \in {"resolve", "check"}
    /\ Abort("ClientError")
    /\ putEvaluations' = Append(putEvaluations, outputEvaluation)
    /\ UNCHANGED <<event, securityGroups, ipPermissions, pending, instancesToEvaluate,
                   secGroupsToCheck, resolved, unchecked, violationGroups,
                   outputEvaluation, lookups, arg, result>>

\* The lookup the invocation is about to make raises: no function of the
\* source catches it, so it leaves lambda_handler.
LookupFails ==
    /\ \/ pc = "start" /\ Branch(event.resourceType) # "none"
       \/ pc \in {"resolve", "check"}
    /\ Abort("ClientError")
    /\ UNCHANGED <<event, securityGroups, ipPermissions, pending, instancesToEvaluate,
                   secGroupsToCheck, resolved, unchecked, violationGroups,
                   outputEvaluation, putEvaluations, lookups, arg, result>>

\* The scheduler ends the invocation between two calls.
Interrupted ==
    /\ pc \in {"start", "resolve", "check", "submit"}
    /\ Abort("Timeout")
    /\ UNCHANGED <<event, securityGroups, ipPermissions, pending, instancesToEvaluate,
                   secGroupsToCheck, resolved, unchecked, violationGroups,
                   outputEvaluation, putEvaluations, lookups, arg, result>>

Next ==
    \/ Start
    \/ ResolveInstance
    \/ CheckSecGroup
    \/ PutEvaluations
    \/ LookupFails
    \/ Interrupted

Spec == Init /\ [][Next]_vars

(***************************************************************************)
(* Specifications of the port-range utilities on their own: the argument   *)
(* is drawn in the initial state and the function is applied to it.        *)
(***************************************************************************)
SpecAlphabet == {"0", "1", "2", "-", "x"}

RECURSIVE StringsOfLen(_)
StringsOfLen(n) ==
    IF n = 0 THEN {""}
    ELSE {s \o c : s \in StringsOfLen(n - 1), c \in SpecAlphabet}

PortSpecs == UNION {StringsOfLen(n) : n \in 0..MaxSpecLen}

SeqsUpTo(S, n) == UNION {[1..k -> S] : k \in 0..n}

Permissions ==
    {Permission(from, to, cidrs) :
        from \in 0..MaxPort, to \in 0..MaxPort, cidrs \in SeqsUpTo(CidrMenu, MaxRanges)}

IpPermissionValues == {NoneValue} \cup {Some(l) : l \in SeqsUpTo(Permissions, MaxRules)}

FixedEnvironment ==
    /\ event = [resourceType |-> "AWS::EC2::Vpc", resourceId |-> "vpc-1",
                ruleParameters |-> <<>>, configurationItemCaptureTime |-> CaptureTime]
    /\ securityGroups = [i \in InstanceIds |-> <<>>]
    /\ ipPermissions = [g \in GroupIds |-> Some(<<>>)]
    /\ pending = {}
    /\ instancesToEvaluate = <<>>
    /\ secGroupsToCheck = {}
    /\ resolved = FALSE
    /\ unchecked = {}
    /\ violationGroups = <<>>
    /\ outputEvaluation = <<>>
    /\ putEvaluations = <<>>
    /\ failure = "none"
    /\ lookups = {}

InitExpand ==
    /\ FixedEnvironment
    /\ pc = "call"
    /\ arg \in PortSpecs
    /\ result = Raise("unapplied")

ApplyExpandRange ==
    /\ pc = "call"
    /\ result' = expand_range(arg)
    /\ pc' = "returned"
    /\ UNCHANGED <<event, securityGroups, ipPermissions, pending, instancesToEvaluate,
                   secGroupsToCheck, resolved, unchecked, violationGroups,
                   outputEvaluation, putEvaluations, failure, lookups, arg>>

SpecExpand == InitExpand /\ [][ApplyExpandRange]_vars

InitExposed ==
    /\ FixedEnvironment
    /\ pc = "call"
    /\ arg \in IpPermissionValues
    /\ result = Raise("unapplied")

ApplyFindExposedPorts ==
    /\ pc = "call"
    /\ result' = Ok(find_exposed_ports(arg))
    /\ pc' = "returned"
    /\ UNCHANGED <<event, securityGroups, ipPermissions, pending, instancesToEvaluate,
                   secGroupsToCheck, resolved, unchecked, violationGroups,
                   outputEvaluation, putEvaluations, failure, lookups, arg>>

SpecExposed == InitExposed /\ [][ApplyFindExposedPorts]_vars

(***************************************************************************)
(* What the properties are stated in: the account as it is, and the        *)
(* forbidden ports as the configuration reads, without the code's parser.  *)
(***************************************************************************)
Attached(i) == {securityGroups[i][k].GroupId : k \in 1..Len(securityGroups[i])}

AttachedTo(g) == {i \in InstanceIds : g \in Attached(i)}

PortNumbers == 0..99

Decimal(n) ==
    IF n < 10 THEN DigitChars[n + 1]
    ELSE DigitChars[(n \div 10) + 1] \o DigitChars[(n % 10) + 1]

\* The well-formed specifications with what they denote: <<"80", 80>> and
\* <<"0-1024", 0, 1024>>.
SinglePorts == {<<Decimal(n), n>> : n \in PortNumbers}

PortRanges == {<<Decimal(a) \o "-" \o Decimal(b), a, b>> : a, b \in PortNumbers}

IsPort(s, n) == <<s, n>> \in SinglePorts

IsPortRange(s, a, b) == <<s, a, b>> \in PortRanges

WellFormedSpec(s) ==
    \/ \E t \in SinglePorts : t[1] = s
    \/ \E t \in PortRanges : t[1] = s /\ t[2] <= t[3]

PortsOfSpec(s) ==
    {t[2] : t \in {u \in SinglePorts : u[1] = s}}
        \cup UNION {t[2]..t[3] : t \in {u \in PortRanges : u[1] = s}}

WellFormedParameters == {p \in ParameterMenu : \A k \in 1..Len(p) : WellFormedSpec(p[k])}

WellFormed(parameters) == parameters \in WellFormedParameters

ForbiddenPortsOf == [p \in ParameterMenu |-> UNION {PortsOfSpec(p[k]) : k \in 1..Len(p)}]

ForbiddenPorts(parameters) == ForbiddenPortsOf[parameters]

ExposedPorts(g) == Elements(find_exposed_ports(ipPermissions[g]))

Violating(g) == ExposedPorts(g) \cap ForbiddenPorts(event.ruleParameters) # {}

Orderings(set) == {s \in [1..Cardinality(set) -> set] : Elements(s) = set}

IsInstanceRecord(r) == "ComplianceResourceId" \in DOMAIN r

Supported == event.resourceType \in APPLICABLE_RESOURCES

RequiredLookups ==
    IF event.resourceType = "AWS::EC2::SecurityGroup"
    THEN {<<"describe_instances", event.resourceId>>}
            \cup {<<"security_groups", i>> : i \in AttachedTo(event.resourceId)}
            \cup {<<"ip_permissions", g>> :
                     g \in UNION {Attached(i) : i \in AttachedTo(event.resourceId)}}
    ELSE IF event.resourceType = "AWS::EC2::Instance"
    THEN {<<"security_groups", event.resourceId>>}
            \cup {<<"ip_permissions", g>> : g \in Attached(event.resourceId)}
    ELSE {}

(***************************************************************************)
(* Properties.                                                             *)
(***************************************************************************)
\* C1: whenever the records of a supported trigger have been submitted, every
\* instance of the computed scope has one record, which is NON_COMPLIANT with
\* an annotation that names exactly the violating groups attached to the
\* instance when there is such a group, and COMPLIANT otherwise.
C1_RecordMatchesViolatingGroups ==
    (pc = "done" /\ Supported) =>
        \A i \in DOMAIN instancesToEvaluate :
            LET batch == putEvaluations[1]
                mine == {k \in 1..Len(batch) : batch[k].ComplianceResourceId = i}
                bad == {g \in Attached(i) : Violating(g)}
            IN  /\ Cardinality(mine) = 1
                /\ \A k \in mine :
                      IF bad # {}
                      THEN /\ batch[k].ComplianceType = "NON_COMPLIANT"
                           /\ \E order \in Orderings(bad) :
                                 batch[k].Annotation =
                                     "Instance has non compliant groups " \o Join(order)
                      ELSE /\ batch[k].ComplianceType = "COMPLIANT"
                           /\ batch[k].Annotation = "This resource is compliant with the rule."

\* C1 witness: a security-group trigger whose instance is reported
\* NON_COMPLIANT for a group other than the triggering one.
C1_Witness ==
    /\ pc = "done"
    /\ event.resourceType = "AWS::EC2::SecurityGroup"
    /\ event.resourceId = "sg-1"
    /\ ~Violating("sg-1")
    /\ \E k \in 1..Len(putEvaluations[1]) :
          /\ IsInstanceRecord(putEvaluations[1][k])
          /\ putEvaluations[1][k].ComplianceResourceId = "i-2"
          /\ putEvaluations[1][k].ComplianceType = "NON_COMPLIANT"
          /\ putEvaluations[1][k].Annotation = "Instance has non compliant groups sg-2"

\* C2: for a supported trigger the submitted records are exactly one record
\* per instance of the computed scope and no other record.
C2_OneRecordPerScopeInstance ==
    (pc = "done" /\ Supported) =>
        LET batch == putEvaluations[1]
        IN  /\ Len(batch) = Cardinality(DOMAIN instancesToEvaluate)
            /\ \A k \in 1..Len(batch) :
                  /\ IsInstanceRecord(batch[k])
                  /\ batch[k].ComplianceResourceId \in DOMAIN instancesToEvaluate
            /\ \A i \in DOMAIN instancesToEvaluate :
                  \E k \in 1..Len(batch) :
                      IsInstanceRecord(batch[k]) /\ batch[k].ComplianceResourceId = i

\* C3: an unsupported resource type makes no directory lookup and evaluates
\* no group, and submits exactly one record, NOT_APPLICABLE, whose annotation
\* names the resource type, and no per-instance record.
C3_UnsupportedTypeNotApplicable ==
    ~Supported =>
        /\ lookups = {}
        /\ ~resolved /\ unchecked = {} /\ violationGroups = <<>>
        /\ pc \in {"start", "submit", "done", "failed"}
        /\ failure \in {"none", "Timeout"}
        /\ pc = "done" =>
              /\ Len(putEvaluations) = 1
              /\ Len(putEvaluations[1]) = 1
              /\ ~IsInstanceRecord(putEvaluations[1][1])
              /\ putEvaluations[1][1].compliance_type = "NOT_APPLICABLE"
              /\ Contains(event.resourceType, putEvaluations[1][1].annotation)

\* C3 witness: the record of an AWS::EC2::Vpc trigger has been submitted.
C3_Witness ==
    /\ pc = "done"
    /\ event.resourceType = "AWS::EC2::Vpc"
    /\ putEvaluations =
          << <<[compliance_type |-> "NOT_APPLICABLE",
                annotation |->
                    "The rule doesn't apply to resources of type AWS::EC2::Vpc."]>> >>

\* C4 (as claimed): the scope resolved from a security group holds exactly
\* the instances attached to it, each with its complete group set, the
\* groups to check are the union of those sets, and that set has between 1
\* and N*M elements and contains the triggering group.
C4_ScopeFromGroupAlwaysHasTrigger ==
    (event.resourceType = "AWS::EC2::SecurityGroup" /\ resolved) =>
        LET attached == AttachedTo(event.resourceId)
            N == Cardinality(attached)
            M == Cardinality(GroupIds)
        IN  /\ DOMAIN instancesToEvaluate = attached
            /\ \A i \in attached : Elements(instancesToEvaluate[i]) = Attached(i)
            /\ secGroupsToCheck = UNION {Attached(i) : i \in attached}
            /\ Cardinality(secGroupsToCheck) <= N * M
            /\ Cardinality(secGroupsToCheck) >= 1
            /\ event.resourceId \in secGroupsToCheck

\* C4 (amended): as above, but the set has between 1 and N*M elements and
\* contains the triggering group only when N >= 1 instances are attached,
\* M being the largest number of groups on one of them; with no instance
\* attached the scope and the set of groups to check are empty.
C4_ScopeFromGroup ==
    (event.resourceType = "AWS::EC2::SecurityGroup" /\ resolved) =>
        LET attached == AttachedTo(event.resourceId)
            N == Cardinality(attached)
            fits(m) == \A i \in attached : Cardinality(Attached(i)) <= m
            M == CHOOSE m \in 0..Cardinality(GroupIds) :
                    fits(m) /\ \A n \in 0..(m - 1) : ~fits(n)
        IN  /\ DOMAIN instancesToEvaluate = attached
            /\ \A i \in attached :
                  /\ Elements(instancesToEvaluate[i]) = Attached(i)
                  /\ Len(instancesToEvaluate[i]) = Cardinality(Attached(i))
            /\ secGroupsToCheck = UNION {Attached(i) : i \in attached}
            /\ Cardinality(secGroupsToCheck) <= N * M
            /\ N >= 1 => /\ Cardinality(secGroupsToCheck) >= 1
                         /\ event.resourceId \in secGroupsToCheck
            /\ N = 0 => secGroupsToCheck = {} /\ instancesToEvaluate = <<>>

\* C4 witness: a scope of two instances resolved from a group, one of which
\* brings in a second group.
C4_Witness ==
    /\ event.resourceType = "AWS::EC2::SecurityGroup"
    /\ resolved
    /\ Cardinality(DOMAIN instancesToEvaluate) = 2
    /\ Cardinality(secGroupsToCheck) = 2
    /\ \E i \in DOMAIN instancesToEvaluate : Len(instancesToEvaluate[i]) = 1

\* C5: once the groups of a triggering instance have been looked up, the
\* scope is that one instance mapped to the set of the identifiers of its
\* groups, and the groups to check are that same set.
C5_ScopeFromInstance ==
    (/\ event.resourceType = "AWS::EC2::Instance"
     /\ <<"security_groups", event.resourceId>> \in lookups) =>
        /\ resolved
        /\ failure # "TypeError"
        /\ DOMAIN instancesToEvaluate = {event.resourceId}
        /\ Elements(instancesToEvaluate[event.resourceId]) = Attached(event.resourceId)
        /\ secGroupsToCheck = Attached(event.resourceId)

\* C6: under a well-formed configuration the violations found by
\* getViolationGroups among the groups it has visited are exactly the groups
\* whose exposed ports meet the union of the forbidden ports, each once,
\* whatever the other groups and the order of the forbidden specifications.
C6_ViolationGroupsExact ==
    (resolved /\ WellFormed(event.ruleParameters)) =>
        /\ Elements(violationGroups) =
              {g \in secGroupsToCheck \ unchecked : Violating(g)}
        /\ Len(violationGroups) = Cardinality(Elements(violationGroups))
        /\ failure \notin {"ValueError", "TypeError"}

\* C6 witness: of two groups checked, one violates through the second
\* forbidden specification only and the other does not violate.
C6_Witness ==
    /\ pc = "submit"
    /\ event.ruleParameters = <<"2", "0-1">>
    /\ Cardinality(secGroupsToCheck) = 2
    /\ Len(violationGroups) = 1

\* C9: with a malformed entry in the forbidden-port configuration, an
\* invocation for a supported trigger that checks a group fails: it never
\* completes and nothing, in particular no COMPLIANT record, is submitted.
C9_MalformedConfigurationFails ==
    (/\ Supported
     /\ ~WellFormed(event.ruleParameters)
     /\ \E g \in GroupIds : <<"ip_permissions", g>> \in lookups) =>
        /\ pc # "done"
        /\ putEvaluations = <<>>

\* C10: records are submitted at most once, only by an invocation that has
\* not failed and after every directory lookup of the invocation has
\* completed; an invocation ended by a failed lookup or an interruption has
\* submitted nothing.
C10_SubmitOnceAfterAllLookups ==
    /\ Len(putEvaluations) <= 1
    /\ putEvaluations # <<>> =>
          /\ failure = "none"
          /\ pc = "done"
          /\ pending = {} /\ unchecked = {}
          /\ RequiredLookups \subseteq lookups
    /\ (pc = "failed" \/ failure # "none") => putEvaluations = <<>>
    /\ pc = "submit" => RequiredLookups \subseteq lookups

\* C10 witness: a submission that followed four lookups or more.
C10_Witness ==
    /\ pc = "done"
    /\ Len(putEvaluations) = 1
    /\ Cardinality(lookups) >= 4
    /\ RequiredLookups = lookups

(***************************************************************************)
(* Properties of the port-range utilities.                                 *)
(***************************************************************************)
UnrestrictedPorts(ip_permissions) ==
    IF ip_permissions.isNone THEN {}
    ELSE UNION {p.FromPort..p.ToPort :
                    p \in {q \in Elements(ip_permissions.list) :
                              \E k \in 1..Len(q.IpRanges) :
                                  q.IpRanges[k].CidrIp = UNRESTRICTED}}

\* C7: find_exposed_ports returns exactly the ports FromPort..ToPort of the
\* permissions one of whose CIDR ranges equals "0.0.0.0/0", and so nothing
\* when no range equals it or the list is absent or empty.
C7_ExposedPortsOfUnrestrictedRules ==
    pc = "returned" => Elements(result.value) = UnrestrictedPorts(arg)

\* C8: expand_range returns the integers A..B for "A-B" with A <= B and the
\* integer itself for a specification without separator, and fails for "-1"
\* and for every "B-A" whose lower bound is above its upper bound.
C8_ExpandRangeContract ==
    pc = "returned" =>
        /\ \A n \in PortNumbers :
              IsPort(arg, n) => result.exc = "none" /\ result.value = <<n>>
        /\ \A a, b \in PortNumbers :
              (IsPortRange(arg, a, b) /\ a <= b) =>
                  /\ result.exc = "none"
                  /\ result.value = [k \in 1..(b - a + 1) |-> a + k - 1]
        /\ arg = "-1" => result.exc = "ValueError"
        /\ \A a, b \in PortNumbers :
              (IsPortRange(arg, a, b) /\ a > b) => result.exc = "ValueError"

====
